---------------------------- MODULE Spec2Model ----------------------------
(***************************************************************************)
(* Model of actualizar_bd.py: the GraphQL -> SQL Server synchronisation.   *)
(* One process per invocation of main(); the relational store and the      *)
(* GraphQL endpoint are the environment.                                   *)
(***************************************************************************)
EXTENDS Naturals, Sequences, FiniteSets, TLC

(* ------------------------------ bounds --------------------------------- *)
\* Total number of records the endpoint holds (over the three lists).
MaxRecs == 3
\* Total number of invocations of main() over all processes.
MaxRuns == 2

(* --------------------------- value domains ----------------------------- *)
Procs == {"p1", "p2"}
None == "None"
Cis == {"A1", "A2"}
Nombres == {"Ana", "Eva"}
Apellidos == {"Ruiz"}
CasoIds == {"C1"}
Materias == {"civil", "penal"}
ContratoIds == {"K1"}
Fechas == {"2024-03-01"}
\* precioBS in thousandths (150.555)
Precios == {150555}
\* The ci a contract's embedded cliente may carry.
RefCis == {"A1"}

\* One element of allClientes (QUERY_CLIENTES).
ClienteRecs == [ci : Cis, nombre : Nombres, apellido : Apellidos]
\* One element of allCasos (QUERY_CASOS).
CasoRecs == [id : CasoIds, meteria : Materias]
\* One element of allContratos (QUERY_SERVICIOS); cliente / Caso are the
\* key of the embedded object, or None when the object is null.
ContratoRecs == [id : ContratoIds, fecha : Fechas, precioBS : Precios,
                 cliente : RefCis \cup {None}, Caso : CasoIds \cup {None}]

SeqsUpTo(S, n) == UNION {[1..k -> S] : k \in 0..n}

SizeOf(s) == Len(s.clientes) + Len(s.casos) + Len(s.contratos)

\* What the endpoint can hold: at most n records in all.
SourcesUpTo(n) ==
  {s \in [clientes : SeqsUpTo(ClienteRecs, n),
          casos : SeqsUpTo(CasoRecs, n),
          contratos : SeqsUpTo(ContratoRecs, n)] : SizeOf(s) <= n}

Sources == SourcesUpTo(MaxRecs)

Reverse(l) == [i \in 1..Len(l) |-> l[Len(l) + 1 - i]]

RemoveAt(l, i) == [j \in 1..(Len(l) - 1) |-> IF j < i THEN l[j] ELSE l[j + 1]]

\* A record's fields change (its key stays), or the order is reversed.
ListTweaks(l, D, kf) ==
  (UNION {{[l EXCEPT ![i] = r] : r \in {x \in D : x[kf] = l[i][kf]}} :
            i \in 1..Len(l)})
    \cup {Reverse(l)}

\* One edit of a list of the endpoint: a tweak, a record goes, or a record
\* is added.
ListEdits(l, D, kf, room) ==
  ListTweaks(l, D, kf)
    \cup {RemoveAt(l, i) : i \in 1..Len(l)}
    \cup (IF room THEN {Append(l, r) : r \in D} ELSE {})

SourceEdits(s) ==
  ({[s EXCEPT !.clientes = l] :
      l \in ListEdits(s.clientes, ClienteRecs, "ci", SizeOf(s) < MaxRecs)}
   \cup {[s EXCEPT !.casos = l] :
      l \in ListEdits(s.casos, CasoRecs, "id", SizeOf(s) < MaxRecs)}
   \cup {[s EXCEPT !.contratos = l] :
      l \in ListEdits(s.contratos, ContratoRecs, "id", SizeOf(s) < MaxRecs)})
  \ {s}

SourceTweaks(s) ==
  ({[s EXCEPT !.clientes = l] : l \in ListTweaks(s.clientes, ClienteRecs, "ci")}
   \cup {[s EXCEPT !.casos = l] : l \in ListTweaks(s.casos, CasoRecs, "id")}
   \cup {[s EXCEPT !.contratos = l] :
           l \in ListTweaks(s.contratos, ContratoRecs, "id")})
  \ {s}

(* ----------------------------- pandas ---------------------------------- *)
ColsClientes == <<"ci", "nombre", "apellido">>
ColsCasos == <<"id", "meteria">>
ColsServicios == <<"nrocontrato", "fecha", "monto", "cicliente", "nrocasojuridico">>

\* pd.DataFrame(list of dicts): the columns are the dicts' keys, so an empty
\* list gives a frame with no columns at all.
DataFrame(recs, cols) ==
  [cols |-> IF recs = <<>> THEN <<>> ELSE cols, rows |-> recs]

HasCol(df, c) == \E j \in 1..Len(df.cols) : df.cols[j] = c

\* procesar_datos_servicios: flattens the embedded objects.
FlattenServicio(s) ==
  [nrocontrato |-> s.id, fecha |-> s.fecha, monto |-> s.precioBS,
   cicliente |-> s.cliente, nrocasojuridico |-> s.Caso]

procesar_datos_servicios(raw) ==
  DataFrame([i \in 1..Len(raw) |-> FlattenServicio(raw[i])], ColsServicios)

\* Rows of df.drop_duplicates(subset=c) with keep='first', in order.
RECURSIVE KeepFirst(_, _, _)
KeepFirst(rows, c, seen) ==
  IF rows = <<>> THEN <<>>
  ELSE IF Head(rows)[c] \in seen
       THEN KeepFirst(Tail(rows), c, seen)
       ELSE <<Head(rows)>> \o KeepFirst(Tail(rows), c, seen \cup {Head(rows)[c]})

\* keep='last': the last occurrence of each key survives instead.
RECURSIVE KeepLast(_, _)
KeepLast(rows, c) ==
  IF rows = <<>> THEN <<>>
  ELSE IF \E j \in 2..Len(rows) : rows[j][c] = Head(rows)[c]
       THEN KeepLast(Tail(rows), c)
       ELSE <<Head(rows)>> \o KeepLast(Tail(rows), c)

DropDuplicatesRowsLast(rows, c) == KeepLast(rows, c)

DropDuplicatesRows(rows, c) == KeepFirst(rows, c, {})

\* df.drop_duplicates(subset=c).reset_index(drop=True): an empty frame is
\* returned as a copy before the subset is looked at.
DropDuplicates(df, c) ==
  IF df.rows = <<>> THEN [ok |-> TRUE, df |-> df]
  ELSE IF ~HasCol(df, c) THEN [ok |-> FALSE, df |-> df]
  ELSE [ok |-> TRUE, df |-> [df EXCEPT !.rows = DropDuplicatesRows(df.rows, c)]]

\* df.rename(columns={old: new}); a mapping for a missing column is ignored.
RenameRow(r, old, new) ==
  [f \in (DOMAIN r \ {old}) \cup {new} |-> IF f = new THEN r[old] ELSE r[f]]

Rename(df, old, new) ==
  IF ~HasCol(df, old) THEN df
  ELSE [cols |-> [j \in 1..Len(df.cols) |->
                    IF df.cols[j] = old THEN new ELSE df.cols[j]],
        rows |-> [i \in 1..Len(df.rows) |-> RenameRow(df.rows[i], old, new)]]

\* pd.to_datetime(errors="coerce"): a Timestamp, or NaT.
ToDatetime(s) ==
  IF s \in Fechas THEN [ts |-> s] ELSE [ts |-> "NaT"]

\* pd.to_numeric(...).round(2): thousandths in, hundredths out.
ToNumericRound2(m) == (m + 5) \div 10

\* df[c] = f(df[c]) (lines 121-122): reading a missing column is a KeyError.
CoerceServicios(df) ==
  IF ~HasCol(df, "fecha") THEN [ok |-> FALSE, df |-> df]
  ELSE [ok |-> TRUE,
        df |-> [df EXCEPT !.rows =
                  [i \in 1..Len(df.rows) |->
                     [df.rows[i] EXCEPT !.fecha = ToDatetime(@),
                                        !.monto = ToNumericRound2(@)]]]]

\* limpiar_dataframes: [ok, clientes, casos, servicios]; ok = FALSE stands
\* for the KeyError pandas raises.
limpiar_dataframes(dfc, dfk, dfs) ==
  LET c == DropDuplicates(dfc, "ci")
      k == DropDuplicates(dfk, "id")
      s == DropDuplicates(dfs, "nrocontrato")
      z == CoerceServicios(s.df)
  IN  [ok |-> c.ok /\ k.ok /\ s.ok /\ z.ok,
       clientes |-> c.df,
       casos |-> Rename(k.df, "id", "nrocaso"),
       servicios |-> z.df]

\* df.itertuples(index=False): the i-th row as a positional tuple.
Itertuple(df, i) == [j \in 1..Len(df.cols) |-> df.rows[i][df.cols[j]]]

(* ------------------------------ store ---------------------------------- *)
Tablas == {"cliente", "casoJuridico", "contratoServicio"}

\* Column lists of the three MERGE statements; the first one is the key of
\* the ON clause.
SqlCols(t) ==
  CASE t = "cliente" -> <<"ci", "nombre", "apellido">>
    [] t = "casoJuridico" -> <<"nrocaso", "meteria">>
    [] t = "contratoServicio" ->
         <<"nrocontrato", "fecha", "monto", "cicliente", "nrocasojuridico">>

KeyCol(t) == SqlCols(t)[1]

\* USING (VALUES (?, ...)) AS source (c1, ...): the tuple's positions are
\* bound to the statement's columns.
Bind(t, tup) ==
  [c \in {SqlCols(t)[j] : j \in 1..Len(SqlCols(t))} |->
     tup[CHOOSE j \in 1..Len(SqlCols(t)) : SqlCols(t)[j] = c]]

EmptyTables == [t \in Tablas |-> {}]

HasKey(rows, t, k) == \E r \in rows : r[KeyCol(t)] = k

\* Errors of the store (pyodbc.Error): the code and what the text names.
NoErr == [codigo |-> "00000", menciona |-> {}]
ErrPk(t, k) == [codigo |-> "23000/2627", menciona |-> {t, k}]
ErrFk(tref) == [codigo |-> "23000/547", menciona |-> {tref}]
ErrConn == [codigo |-> "08S01", menciona |-> {}]
ErrDeadlock == [codigo |-> "40001/1205", menciona |-> {}]

NoExc == [cls |-> None, prefix |-> None, detalle |-> NoErr]
NoFallo == [paso |-> None, tabla |-> None, clave |-> None]

EmptyDf == [cols |-> <<>>, rows |-> <<>>]
NoData == [clientes |-> <<>>, casos |-> <<>>, servicios |-> <<>>]
NoDfs == [clientes |-> EmptyDf, casos |-> EmptyDf, servicios |-> EmptyDf]
NoConn == [acquired |-> 0, open |-> FALSE]

(* ------------------------------ state ---------------------------------- *)
VARIABLES
  remote,     \* what the GraphQL endpoint holds
  committed,  \* committed rows of the three tables
  pending,    \* per process: rows inserted by its open transaction
  pc,         \* per process: position in main()
  data,       \* per process: data_clientes, data_casos, data_servicios
  df,         \* per process: df_clientes, df_casos, df_servicios
  idx,        \* per process: rows of the current loop already executed
  phase,      \* per process: stage of the MERGE in execution
  conn,       \* per process: connections acquired, and whether conn is open
  commits,    \* per process: commits issued on the connection, in order
  err,        \* per process: the pyodbc error caught at line 210
  exc,        \* per process: the exception main() raised
  fallo,      \* per process: where the run failed (history)
  intentos,   \* per process: <<table, key>> of every statement executed (history)
  antes,      \* per process: the committed tables when the run started (history)
  runs,       \* per process: invocations started
  synced,     \* a run succeeded on the endpoint's current content (history)
  edited      \* the endpoint was edited since the last start

vars == <<remote, committed, pending, pc, data, df, idx, phase, conn, commits,
          err, exc, fallo, intentos, antes, runs, synced, edited>>

locals == <<data, df, idx, phase, conn, commits, err, exc, fallo, intentos>>

InitRest ==
  /\ committed = EmptyTables
  /\ pending = [p \in Procs |-> EmptyTables]
  /\ pc = [p \in Procs |-> "idle"]
  /\ data = [p \in Procs |-> NoData]
  /\ df = [p \in Procs |-> NoDfs]
  /\ idx = [p \in Procs |-> 0]
  /\ phase = [p \in Procs |-> "match"]
  /\ conn = [p \in Procs |-> NoConn]
  /\ commits = [p \in Procs |-> <<>>]
  /\ err = [p \in Procs |-> NoErr]
  /\ exc = [p \in Procs |-> NoExc]
  /\ fallo = [p \in Procs |-> NoFallo]
  /\ intentos = [p \in Procs |-> <<>>]
  /\ antes = [p \in Procs |-> EmptyTables]
  /\ runs = [p \in Procs |-> 0]
  /\ synced = FALSE
  /\ edited = FALSE

Init == remote \in Sources /\ InitRest

InitConc == remote \in Sources /\ InitRest

RECURSIVE SumRuns(_)
SumRuns(S) ==
  IF S = {} THEN 0
  ELSE LET p == CHOOSE q \in S : TRUE IN runs[p] + SumRuns(S \ {p})

(* --------------------------- store semantics --------------------------- *)
\* A transaction's writes are <<op, row>> records: op "I" (inserted) or "U"
\* (updated).  The statements of main() only ever produce "I".
Rows(ws) == {w.row : w \in ws}

\* What a statement of p reads: committed rows and p's own writes.
Visible(p, t) ==
  {r \in committed[t] : ~HasKey(Rows(pending[p][t]), t, r[KeyCol(t)])}
    \cup Rows(pending[p][t])

\* COMMIT: inserted rows are added, updated rows replace the row of their key.
CommitTables(com, pen) ==
  [t \in Tablas |->
     {r \in com[t] :
        ~\E w \in pen[t] : w.op = "U" /\ w.row[KeyCol(t)] = r[KeyCol(t)]}
       \cup Rows(pen[t])]

\* The primary-key constraint of the target tables.
PkConflict(com, t, k) == HasKey(com[t], t, k)

\* A plain INSERT: no row is ever taken as matched.
MatchedNever(rows, t, row) == FALSE

\* ON target.key = source.key
Matched(rows, t, row) == HasKey(rows, t, row[KeyCol(t)])

\* An update branch (WHEN MATCHED THEN UPDATE) would write the source row.
WhenMatchedUpdate(ws, t, row) ==
  {w \in ws : w.row[KeyCol(t)] # row[KeyCol(t)]} \cup {[op |-> "U", row |-> row]}

\* The statements have no WHEN MATCHED branch: a matched row writes nothing.
WhenMatched(ws, t, row) == ws

\* WHEN NOT MATCHED THEN INSERT (...) VALUES (source...)
WhenNotMatched(ws, t, row) == ws \cup {[op |-> "I", row |-> row]}

(* ------------------------------ main() --------------------------------- *)
FetchPcs == {"fetch_clientes", "fetch_casos", "fetch_servicios"}
LoopPcs == {"clientes", "casos", "servicios"}

\* The loops of lines 177, 189, 201 in the variant with the last two swapped.
LoopOrderSwapped == <<"clientes", "servicios", "casos">>

\* The loops of lines 177, 189, 201, in program order.
LoopOrder == <<"clientes", "casos", "servicios">>

LoopPos(l) == CHOOSE j \in 1..Len(LoopOrder) : LoopOrder[j] = l

\* The first loop falling through to the commit.
AfterLoopSkip(l) == "commit"

AfterLoop(l) ==
  IF LoopPos(l) = Len(LoopOrder) THEN "commit" ELSE LoopOrder[LoopPos(l) + 1]

LoopTabla(l) ==
  CASE l = "clientes" -> "cliente"
    [] l = "casos" -> "casoJuridico"
    [] l = "servicios" -> "contratoServicio"

InLoop(p) == pc[p] \in LoopPcs
CurTabla(p) == LoopTabla(pc[p])
CurDf(p) == df[p][pc[p]]
HasRow(p) == InLoop(p) /\ idx[p] < Len(CurDf(p).rows)
CurRow(p) == Bind(CurTabla(p), Itertuple(CurDf(p), idx[p] + 1))
CurKey(p) == CurRow(p)[KeyCol(CurTabla(p))]

\* Connection.__exit__ always committing.
ExitCompletionAlwaysCommit(raised) == "commit"

\* Connection.__exit__ of pyodbc: SQLEndTran with SQL_COMMIT when the block
\* left normally and SQL_ROLLBACK when it raised; the connection stays open.
ExitCompletion(raised) == IF raised THEN "rollback" ELSE "commit"

\* The exception of line 211 without the text of the caught error.
WrapErrorNoCause(e) ==
  [cls |-> "Exception",
   prefix |-> "Error al guardar los datos en la base de datos: ",
   detalle |-> NoErr]

\* raise Exception(f"Error al guardar los datos en la base de datos: {e}")
WrapError(e) ==
  [cls |-> "Exception",
   prefix |-> "Error al guardar los datos en la base de datos: ",
   detalle |-> e]

Fail(p, paso, t, k) == fallo' = [fallo EXCEPT ![p] = [paso |-> paso, tabla |-> t, clave |-> k]]

\* A new invocation of main().
Start(p) ==
  /\ pc[p] = "idle"
  /\ SumRuns(Procs) < MaxRuns
  /\ p = "p1" \/ runs["p1"] > 0
  /\ pc' = [pc EXCEPT ![p] = "fetch_clientes"]
  /\ runs' = [runs EXCEPT ![p] = @ + 1]
  /\ antes' = [antes EXCEPT ![p] = committed]
  /\ edited' = FALSE
  /\ UNCHANGED <<remote, committed, pending, locals, synced>>

\* consulta_graphql(QUERY_CLIENTES)["allClientes"]
FetchClientes(p) ==
  /\ pc[p] = "fetch_clientes"
  /\ data' = [data EXCEPT ![p].clientes = remote.clientes]
  /\ pc' = [pc EXCEPT ![p] = "fetch_casos"]
  /\ UNCHANGED <<remote, committed, pending, df, idx, phase, conn, commits,
                 err, exc, fallo, intentos, antes, runs, synced, edited>>

\* consulta_graphql(QUERY_CASOS)["allCasos"]
FetchCasos(p) ==
  /\ pc[p] = "fetch_casos"
  /\ data' = [data EXCEPT ![p].casos = remote.casos]
  /\ pc' = [pc EXCEPT ![p] = "fetch_servicios"]
  /\ UNCHANGED <<remote, committed, pending, df, idx, phase, conn, commits,
                 err, exc, fallo, intentos, antes, runs, synced, edited>>

\* consulta_graphql(QUERY_SERVICIOS)["allContratos"]
FetchServicios(p) ==
  /\ pc[p] = "fetch_servicios"
  /\ data' = [data EXCEPT ![p].servicios = remote.contratos]
  /\ pc' = [pc EXCEPT ![p] = "normalizar"]
  /\ UNCHANGED <<remote, committed, pending, df, idx, phase, conn, commits,
                 err, exc, fallo, intentos, antes, runs, synced, edited>>

\* consulta_graphql raising: a status other than 200 (line 92), or
\* requests.post itself failing.  Raised outside the try block of main().
FetchFails(p) ==
  /\ pc[p] \in FetchPcs
  /\ \E e \in {[cls |-> "Exception", prefix |-> "Error al consultar GraphQL",
                detalle |-> [codigo |-> "HTTP 500", menciona |-> {}]],
               [cls |-> "ConnectionError", prefix |-> None,
                detalle |-> [codigo |-> "requests", menciona |-> {}]]} :
       exc' = [exc EXCEPT ![p] = e]
  /\ Fail(p, pc[p], None, None)
  /\ pc' = [pc EXCEPT ![p] = "failed"]
  /\ UNCHANGED <<remote, committed, pending, data, df, idx, phase, conn,
                 commits, err, intentos, antes, runs, synced, edited>>

\* Lines 142-147: the three DataFrames and limpiar_dataframes; a KeyError of
\* pandas leaves main() outside the try block.
Normalizar(p) ==
  /\ pc[p] = "normalizar"
  /\ LET r == limpiar_dataframes(DataFrame(data[p].clientes, ColsClientes),
                                 DataFrame(data[p].casos, ColsCasos),
                                 procesar_datos_servicios(data[p].servicios))
     IN  IF r.ok
         THEN /\ df' = [df EXCEPT ![p] = [clientes |-> r.clientes,
                                          casos |-> r.casos,
                                          servicios |-> r.servicios]]
              /\ pc' = [pc EXCEPT ![p] = "connect"]
              /\ UNCHANGED <<exc, fallo>>
         ELSE /\ exc' = [exc EXCEPT ![p] =
                           [cls |-> "KeyError", prefix |-> None,
                            detalle |-> [codigo |-> "fecha", menciona |-> {}]]]
              /\ Fail(p, "normalizar", None, None)
              /\ pc' = [pc EXCEPT ![p] = "failed"]
              /\ UNCHANGED df
  /\ UNCHANGED <<remote, committed, pending, data, idx, phase, conn, commits,
                 err, intentos, antes, runs, synced, edited>>

\* with pyodbc.connect(DB_CONNECTION_STRING) as conn: cursor = conn.cursor()
Connect(p) ==
  /\ pc[p] = "connect"
  /\ conn' = [conn EXCEPT ![p] = [acquired |-> @.acquired + 1, open |-> TRUE]]
  /\ pc' = [pc EXCEPT ![p] = LoopOrder[1]]
  /\ idx' = [idx EXCEPT ![p] = 0]
  /\ phase' = [phase EXCEPT ![p] = "match"]
  /\ UNCHANGED <<remote, committed, pending, data, df, commits, err, exc,
                 fallo, intentos, antes, runs, synced, edited>>

\* pyodbc.connect raising: the with block is never entered.
ConnectFails(p) ==
  /\ pc[p] = "connect"
  /\ err' = [err EXCEPT ![p] = ErrConn]
  /\ Fail(p, "connect", None, None)
  /\ pc' = [pc EXCEPT ![p] = "except"]
  /\ UNCHANGED <<remote, committed, pending, data, df, idx, phase, conn,
                 commits, exc, intentos, antes, runs, synced, edited>>

\* The row's key is held by the uncommitted write of another transaction:
\* the insert waits for that transaction to end.
WaitsFor(p, q) ==
  /\ q # p
  /\ HasRow(p)
  /\ phase[p] = "insert"
  /\ HasKey(Rows(pending[q][CurTabla(p)]), CurTabla(p), CurKey(p))

\* A reference of the contract row that no visible row carries.
DanglingRefs(p) ==
  IF CurTabla(p) # "contratoServicio" THEN {}
  ELSE {t \in {"cliente", "casoJuridico"} :
          LET ref == IF t = "cliente" THEN CurRow(p).cicliente
                     ELSE CurRow(p).nrocasojuridico
          IN  ref # None /\ ~HasKey(Visible(p, t), t, ref)}

Raise(p, e, t, k) ==
  /\ err' = [err EXCEPT ![p] = e]
  /\ Fail(p, pc[p], t, k)
  /\ pc' = [pc EXCEPT ![p] = "exit_exc"]

\* cursor.execute(MERGE ..., row), first half: the ON clause is evaluated.
\* A matched row ends the statement (there is no WHEN MATCHED branch).
MergeMatch(p) ==
  /\ HasRow(p)
  /\ phase[p] = "match"
  /\ intentos' = [intentos EXCEPT ![p] = Append(@, <<CurTabla(p), CurKey(p)>>)]
  /\ IF Matched(Visible(p, CurTabla(p)), CurTabla(p), CurRow(p))
     THEN /\ pending' = [pending EXCEPT ![p][CurTabla(p)] =
                           WhenMatched(@, CurTabla(p), CurRow(p))]
          /\ idx' = [idx EXCEPT ![p] = @ + 1]
          /\ UNCHANGED phase
     ELSE /\ phase' = [phase EXCEPT ![p] = "insert"]
          /\ UNCHANGED <<pending, idx>>
  /\ UNCHANGED <<remote, committed, pc, data, df, conn, commits, err, exc,
                 fallo, antes, runs, synced, edited>>

\* cursor.execute(MERGE ..., row), second half: the NOT MATCHED branch
\* inserts, unless a row with the key was committed meanwhile.
MergeInsert(p) ==
  /\ HasRow(p)
  /\ phase[p] = "insert"
  /\ \A q \in Procs : ~WaitsFor(p, q)
  /\ IF PkConflict(committed, CurTabla(p), CurKey(p))
     THEN /\ Raise(p, ErrPk(CurTabla(p), CurKey(p)), CurTabla(p), CurKey(p))
          /\ UNCHANGED <<pending, idx, phase>>
     ELSE /\ pending' = [pending EXCEPT ![p][CurTabla(p)] =
                           WhenNotMatched(@, CurTabla(p), CurRow(p))]
          /\ idx' = [idx EXCEPT ![p] = @ + 1]
          /\ phase' = [phase EXCEPT ![p] = "match"]
          /\ UNCHANGED <<pc, err, fallo>>
  /\ UNCHANGED <<remote, committed, data, df, conn, commits, exc, intentos,
                 antes, runs, synced, edited>>

\* The insert of a contract whose reference is missing, under a schema that
\* enforces the foreign keys.
FkViolation(p) ==
  /\ HasRow(p)
  /\ phase[p] = "insert"
  /\ \E t \in DanglingRefs(p) : Raise(p, ErrFk(t), CurTabla(p), CurKey(p))
  /\ UNCHANGED <<remote, committed, pending, data, df, idx, phase, conn,
                 commits, exc, intentos, antes, runs, synced, edited>>

\* Two inserts wait for each other: the store ends one of them with 1205.
DeadlockVictim(p) ==
  /\ \E q \in Procs : WaitsFor(p, q) /\ WaitsFor(q, p)
  /\ Raise(p, ErrDeadlock, CurTabla(p), CurKey(p))
  /\ UNCHANGED <<remote, committed, pending, data, df, idx, phase, conn,
                 commits, exc, intentos, antes, runs, synced, edited>>

\* The store or the link failing under a statement, the commit, or the
\* commit of Connection.__exit__.
StoreFails(p) ==
  /\ \/ HasRow(p) /\ phase[p] = "match"
     \/ pc[p] \in {"commit", "exit"}
  /\ err' = [err EXCEPT ![p] = ErrConn]
  /\ IF HasRow(p) THEN Fail(p, pc[p], CurTabla(p), CurKey(p))
                  ELSE Fail(p, pc[p], None, None)
  /\ pc' = [pc EXCEPT ![p] = IF pc[p] = "exit" THEN "except" ELSE "exit_exc"]
  /\ UNCHANGED <<remote, committed, pending, data, df, idx, phase, conn,
                 commits, exc, intentos, antes, runs, synced, edited>>

\* A for loop of lines 177, 189, 201 running out of rows.
EndLoop(p) ==
  /\ InLoop(p)
  /\ idx[p] = Len(CurDf(p).rows)
  /\ pc' = [pc EXCEPT ![p] = AfterLoop(pc[p])]
  /\ idx' = [idx EXCEPT ![p] = 0]
  /\ UNCHANGED <<remote, committed, pending, data, df, phase, conn, commits,
                 err, exc, fallo, intentos, antes, runs, synced, edited>>

\* SQLEndTran on p's connection.
EndTran(p, completion, tag) ==
  /\ committed' = IF completion = "commit"
                  THEN CommitTables(committed, pending[p]) ELSE committed
  /\ pending' = [pending EXCEPT ![p] = EmptyTables]
  /\ commits' = [commits EXCEPT ![p] =
                   IF completion = "commit" THEN Append(@, tag) ELSE @]

\* conn.commit(); cursor.close()
Commit(p) ==
  /\ pc[p] = "commit"
  /\ EndTran(p, "commit", "explicit")
  /\ pc' = [pc EXCEPT ![p] = "exit"]
  /\ UNCHANGED <<remote, data, df, idx, phase, conn, err, exc, fallo,
                 intentos, antes, runs, synced, edited>>

\* Leaving the with block normally: Connection.__exit__(None, None, None).
ExitWith(p) ==
  /\ pc[p] = "exit"
  /\ EndTran(p, ExitCompletion(FALSE), "exit")
  /\ pc' = [pc EXCEPT ![p] = "return"]
  /\ UNCHANGED <<remote, data, df, idx, phase, conn, err, exc, fallo,
                 intentos, antes, runs, synced, edited>>

\* Leaving the with block by an exception: Connection.__exit__(type, e, tb).
ExitWithExc(p) ==
  /\ pc[p] = "exit_exc"
  /\ EndTran(p, ExitCompletion(TRUE), "exit")
  /\ pc' = [pc EXCEPT ![p] = "except"]
  /\ UNCHANGED <<remote, data, df, idx, phase, conn, err, exc, fallo,
                 intentos, antes, runs, synced, edited>>

\* except Exception as e: raise Exception(...).  The traceback keeps the
\* frame of main(), and with it conn, alive.
ExceptRaise(p) ==
  /\ pc[p] = "except"
  /\ exc' = [exc EXCEPT ![p] = WrapError(err[p])]
  /\ pc' = [pc EXCEPT ![p] = "failed"]
  /\ UNCHANGED <<remote, committed, pending, data, df, idx, phase, conn,
                 commits, err, fallo, intentos, antes, runs, synced, edited>>

\* Line 208 and the return: the frame goes, and conn with it (the
\* connection is closed when the Connection object is deallocated).
Return(p) ==
  /\ pc[p] = "return"
  /\ conn' = [conn EXCEPT ![p].open = FALSE]
  /\ pc' = [pc EXCEPT ![p] = "done"]
  /\ synced' = (data[p] = [clientes |-> remote.clientes, casos |-> remote.casos,
                           servicios |-> remote.contratos])
  /\ UNCHANGED <<remote, committed, pending, data, df, idx, phase, commits,
                 err, exc, fallo, intentos, antes, runs, edited>>

\* The process ends: what it still holds is released, and the store rolls
\* back what was not committed.
Terminar(p) ==
  /\ pc[p] \in {"done", "failed"}
  /\ pc' = [pc EXCEPT ![p] = "idle"]
  /\ pending' = [pending EXCEPT ![p] = EmptyTables]
  /\ data' = [data EXCEPT ![p] = NoData]
  /\ df' = [df EXCEPT ![p] = NoDfs]
  /\ idx' = [idx EXCEPT ![p] = 0]
  /\ phase' = [phase EXCEPT ![p] = "match"]
  /\ conn' = [conn EXCEPT ![p] = NoConn]
  /\ commits' = [commits EXCEPT ![p] = <<>>]
  /\ err' = [err EXCEPT ![p] = NoErr]
  /\ exc' = [exc EXCEPT ![p] = NoExc]
  /\ fallo' = [fallo EXCEPT ![p] = NoFallo]
  /\ intentos' = [intentos EXCEPT ![p] = <<>>]
  /\ antes' = [antes EXCEPT ![p] = EmptyTables]
  /\ UNCHANGED <<remote, committed, runs, synced, edited>>

(* ---------------------------- environment ------------------------------ *)
\* The endpoint's content is edited between two invocations.
SourceChange ==
  /\ \A p \in Procs : pc[p] = "idle"
  /\ SumRuns(Procs) \in 1..(MaxRuns - 1)
  /\ ~edited
  /\ \E s \in SourceEdits(remote) : remote' = s
  /\ edited' = TRUE
  /\ synced' = FALSE
  /\ UNCHANGED <<committed, pending, pc, locals, antes, runs>>

\* The endpoint's content is tweaked after the first process has fetched it
\* and before the second one starts.
SourceDrift ==
  /\ pc["p1"] = "connect"
  /\ pc["p2"] = "idle"
  /\ SumRuns(Procs) < MaxRuns
  /\ ~edited
  /\ \E s \in SourceTweaks(remote) : remote' = s
  /\ edited' = TRUE
  /\ synced' = FALSE
  /\ UNCHANGED <<committed, pending, pc, locals, antes, runs>>

(* --------------------------- specifications ---------------------------- *)
Paso(p) ==
  \/ Start(p) \/ FetchClientes(p) \/ FetchCasos(p) \/ FetchServicios(p)
  \/ Normalizar(p) \/ Connect(p) \/ MergeMatch(p) \/ MergeInsert(p)
  \/ FkViolation(p) \/ EndLoop(p) \/ Commit(p) \/ ExitWith(p)
  \/ ExitWithExc(p) \/ ExceptRaise(p) \/ Return(p) \/ Terminar(p)

\* Faults of the network, the link and the store.
Faults(p) == FetchFails(p) \/ ConnectFails(p) \/ StoreFails(p)

\* One process: invocations of main() one after the other, under faults.
Next == Paso("p1") \/ Faults("p1") \/ SourceChange

Spec == Init /\ [][Next]_vars

\* Two uncoordinated processes; the store's lock conflicts are the faults.
NextConc == (\E p \in Procs : Paso(p) \/ DeadlockVictim(p)) \/ SourceDrift

SpecConc == InitConc /\ [][NextConc]_vars

(* ------------------------------ claims --------------------------------- *)
Range(f) == {f[i] : i \in DOMAIN f}
KeysOf(rows, t) == {r[KeyCol(t)] : r \in rows}

DfOf(d, t) ==
  CASE t = "cliente" -> d.clientes
    [] t = "casoJuridico" -> d.casos
    [] t = "contratoServicio" -> d.servicios

\* The rows a run holds for table t after normalisation.
DfRows(d, t) == {Bind(t, Itertuple(DfOf(d, t), i)) : i \in 1..Len(DfOf(d, t).rows)}

\* The tables a, with the rows of d whose key a does not hold.
MergedTables(a, d) ==
  [t \in Tablas |-> a[t] \cup {r \in DfRows(d, t) : ~HasKey(a[t], t, r[KeyCol(t)])}]

PreCommitPasos == FetchPcs \cup LoopPcs \cup {"normalizar", "connect", "commit"}

\* C1: a run is all-or-nothing.  Until its commit the committed tables are
\* those of its start, and so they stay when it fails at a fetch, at the
\* normalisation, at the connection, at a statement of any of the three
\* loops or at the commit; from its commit on they are the tables of its
\* start plus the new rows of all three entity types.
C1_AllOrNothing ==
  \A p \in Procs :
    pc[p] # "idle" =>
      /\ commits[p] = <<>> => committed = antes[p]
      /\ commits[p] # <<>> => committed = MergedTables(antes[p], df[p])
      /\ (pc[p] = "failed" /\ fallo[p].paso \in PreCommitPasos) => commits[p] = <<>>

\* A contract statement failed after a client and a case had been inserted.
C1_Witness ==
  \E p \in Procs :
    /\ pc[p] = "failed"
    /\ fallo[p].tabla = "contratoServicio"
    /\ DfRows(df[p], "cliente") \ antes[p]["cliente"] # {}
    /\ DfRows(df[p], "casoJuridico") \ antes[p]["casoJuridico"] # {}
    /\ committed = antes[p]

\* C2: once a run has succeeded on the endpoint's content and that content
\* has not changed, no later step changes the committed tables, inserts a
\* row or meets a duplicate key.
C2_Idempotent ==
  [][synced =>
       /\ committed' = committed
       /\ \A p \in Procs :
            /\ pending'[p] = EmptyTables
            /\ err'[p].codigo # "23000/2627"]_vars

\* A second run has succeeded on the unchanged content of a non-empty store.
C2_Witness ==
  /\ synced
  /\ pc["p1"] = "done"
  /\ runs["p1"] = 2
  /\ antes["p1"] = committed
  /\ \A t \in Tablas : committed[t] # {}

\* C3: every committed row stays, with its values, and no second row of its
\* key appears: the tables only grow.
C3_InsertOnly ==
  [][\A t \in Tablas : \A r \in committed[t] :
       /\ r \in committed'[t]
       /\ \A r2 \in committed'[t] : r2[KeyCol(t)] = r[KeyCol(t)] => r2 = r]_vars

\* A run succeeded whose source gave another name for a stored client.
C3_Witness ==
  \E p \in Procs :
    /\ pc[p] = "done"
    /\ \E r \in antes[p]["cliente"] : \E i \in 1..Len(data[p].clientes) :
         /\ data[p].clientes[i].ci = r.ci
         /\ data[p].clientes[i].nombre # r.nombre
         /\ r \in committed["cliente"]

UniquePk ==
  \A t \in Tablas : \A r1, r2 \in committed[t] :
    r1[KeyCol(t)] = r2[KeyCol(t)] => r1 = r2

\* C4: under two uncoordinated runs no table holds two rows of one key, no
\* committed row changes, only the commit of a run that met no error
\* changes the tables, and a duplicate-key error is met by the run whose
\* key another run committed after it had started.
C4_Concurrent ==
  /\ [](UniquePk /\
        \A p \in Procs :
          /\ err[p] # NoErr => commits[p] = <<>>
          /\ (pc[p] = "exit_exc" /\ err[p].codigo = "23000/2627") =>
               /\ HasKey(committed[fallo[p].tabla], fallo[p].tabla, fallo[p].clave)
               /\ ~HasKey(antes[p][fallo[p].tabla], fallo[p].tabla, fallo[p].clave))
  /\ [][/\ \A t \in Tablas : committed[t] \subseteq committed'[t]
        /\ committed' # committed =>
             \E p \in Procs : pc[p] = "commit" /\ pc'[p] = "exit" /\ err[p] = NoErr]_vars

\* The second run failed on a duplicate key after the first one committed.
C4_Witness ==
  \E p, q \in Procs :
    /\ p # q
    /\ pc[p] = "failed"
    /\ err[p].codigo = "23000/2627"
    /\ exc[p] = WrapError(err[p])
    /\ pc[q] = "done"
    /\ committed # EmptyTables

TotalRows(d) == Len(d.clientes.rows) + Len(d.casos.rows) + Len(d.servicios.rows)

\* C5 as stated: a run commits exactly once, after all statements.
C5_Original ==
  \A p \in Procs :
    /\ pc[p] = "done" => Len(commits[p]) = 1
    /\ commits[p] # <<>> => Len(intentos[p]) = TotalRows(df[p])

\* C5 (as amended): main() commits explicitly once, after every statement of
\* the three loops has executed without error; leaving the with block then
\* commits once more, with nothing left to commit; no commit is issued
\* inside or between the loops, nor in a run that failed before its commit.
C5_Commits ==
  \A p \in Procs :
    /\ commits[p] \in {<<>>, <<"explicit">>, <<"explicit", "exit">>}
    /\ commits[p] # <<>> => Len(intentos[p]) = TotalRows(df[p])
    /\ pc[p] \in LoopPcs \cup {"commit", "exit_exc"} => commits[p] = <<>>
    /\ pc[p] = "exit" => commits[p] = <<"explicit">> /\ pending[p] = EmptyTables
    /\ pc[p] \in {"return", "done"} => commits[p] = <<"explicit", "exit">>
    /\ (pc[p] = "failed" /\ fallo[p].paso \in PreCommitPasos) => commits[p] = <<>>

\* A run that inserted rows is done.
C5_Witness ==
  \E p \in Procs :
    /\ pc[p] = "done"
    /\ committed # antes[p]
    /\ TotalRows(df[p]) >= 2

\* C6 as stated: a finished run acquired one connection and closed it.
C6_Original ==
  \A p \in Procs :
    pc[p] \in {"done", "failed"} =>
      /\ ~conn[p].open
      /\ conn[p].acquired <= 1
      /\ fallo[p].paso \in LoopPcs \cup {"commit", "exit", None} => conn[p].acquired = 1

FirstIdx(raw, kf, k) == CHOOSE j \in 1..Len(raw) :
                          /\ raw[j][kf] = k
                          /\ \A i \in 1..(j - 1) : raw[i][kf] # k

\* out holds one row per key of raw, the projection of the key's first
\* record, in the order of the first records.
IsFirstOccurrences(raw, kf, out, okf, Proj(_)) ==
  /\ {out[i][okf] : i \in 1..Len(out)} = {raw[j][kf] : j \in 1..Len(raw)}
  /\ \A i \in 1..Len(out) : out[i] = Proj(raw[FirstIdx(raw, kf, out[i][okf])])
  /\ \A i, j \in 1..Len(out) :
       i < j => FirstIdx(raw, kf, out[i][okf]) < FirstIdx(raw, kf, out[j][okf])

ProjCliente(r) == r
ProjCaso(r) == [nrocaso |-> r.id, meteria |-> r.meteria]
ProjServicio(r) ==
  [nrocontrato |-> r.id, fecha |-> [ts |-> r.fecha],
   monto |-> (r.precioBS + 5) \div 10,
   cicliente |-> r.cliente, nrocasojuridico |-> r.Caso]

Normalized(p) == pc[p] \in LoopPcs \cup {"connect", "commit", "exit", "exit_exc",
                                         "except", "return", "done"}
                 \/ (pc[p] = "failed" /\ fallo[p].paso \notin FetchPcs \cup {"normalizar"})

\* C7: the normalised frames hold one row per primary key, the first record
\* of the key in source order, in source order; and a run that is done has
\* stored, for each client key new to the store, just the first record.
C7_Dedup ==
  \A p \in Procs :
    /\ Normalized(p) =>
         /\ IsFirstOccurrences(data[p].clientes, "ci", df[p].clientes.rows, "ci",
                               ProjCliente)
         /\ IsFirstOccurrences(data[p].casos, "id", df[p].casos.rows, "nrocaso",
                               ProjCaso)
         /\ IsFirstOccurrences(data[p].servicios, "id", df[p].servicios.rows,
                               "nrocontrato", ProjServicio)
    /\ pc[p] = "done" =>
         \A k \in {data[p].clientes[j].ci : j \in 1..Len(data[p].clientes)} :
           ~HasKey(antes[p]["cliente"], "cliente", k) =>
             {r \in committed["cliente"] : r.ci = k}
               = {data[p].clientes[FirstIdx(data[p].clientes, "ci", k)]}

\* Two client records of one key and two names were fetched and stored.
C7_Witness ==
  \E p \in Procs :
    /\ pc[p] = "done"
    /\ \E i, j \in 1..Len(data[p].clientes) :
         /\ i < j
         /\ data[p].clientes[i].ci = data[p].clientes[j].ci
         /\ data[p].clientes[i].nombre # data[p].clientes[j].nombre
         /\ data[p].clientes[i] \in committed["cliente"]
         /\ ~HasKey(antes[p]["cliente"], "cliente", data[p].clientes[i].ci)

FetchedKeys(p, t) ==
  IF t = "cliente" THEN {data[p].clientes[j].ci : j \in 1..Len(data[p].clientes)}
  ELSE {data[p].casos[j].id : j \in 1..Len(data[p].casos)}

\* C8: no client or case statement follows a contract statement; when the
\* first contract statement runs, every client and case row has been
\* attempted; and a missing-reference error names a reference that is not
\* null and not among the keys fetched in the run.
C8_Order ==
  \A p \in Procs :
    /\ \A i, j \in 1..Len(intentos[p]) :
         (i < j /\ intentos[p][i][1] = "contratoServicio")
           => intentos[p][j][1] = "contratoServicio"
    /\ (\E i \in 1..Len(intentos[p]) : intentos[p][i][1] = "contratoServicio") =>
         \A t \in {"cliente", "casoJuridico"} : \A r \in DfRows(df[p], t) :
           <<t, r[KeyCol(t)]>> \in Range(intentos[p])
    /\ err[p].codigo = "23000/547" =>
         \E t \in err[p].menciona :
           LET i == CHOOSE j \in 1..Len(df[p].servicios.rows) :
                      df[p].servicios.rows[j].nrocontrato = fallo[p].clave
               row == df[p].servicios.rows[i]
               ref == IF t = "cliente" THEN row.cicliente ELSE row.nrocasojuridico
           IN  ref # None /\ ref \notin FetchedKeys(p, t)

\* A contract was stored with the client and the case of its own run.
C8_Witness ==
  \E p \in Procs :
    /\ pc[p] = "done"
    /\ \E r \in committed["contratoServicio"] \ antes[p]["contratoServicio"] :
         /\ r.cicliente # None
         /\ r.nrocasojuridico # None
         /\ ~HasKey(antes[p]["cliente"], "cliente", r.cicliente)
         /\ ~HasKey(antes[p]["casoJuridico"], "casoJuridico", r.nrocasojuridico)

\* C9 as stated: the error of a failed statement names the entity type and
\* the key.
C9_Original ==
  \A p \in Procs :
    (pc[p] = "failed" /\ fallo[p].paso \in LoopPcs) =>
      {fallo[p].tabla, fallo[p].clave} \subseteq exc[p].detalle.menciona

\* C9 (as amended): a run that fails at the connection, at a statement, at
\* the commit or on leaving the with block raises a plain Exception whose
\* message is the fixed prefix followed by the text of the store's error; it
\* adds neither the entity type nor the key.
C9_Wraps ==
  \A p \in Procs :
    (pc[p] = "failed" /\ fallo[p].paso \in LoopPcs \cup {"connect", "commit", "exit"}) =>
      /\ err[p] # NoErr
      /\ exc[p].cls = "Exception"
      /\ exc[p].prefix = "Error al guardar los datos en la base de datos: "
      /\ exc[p].detalle = err[p]

\* A contract statement failed after the client statements had run, and
\* main() has raised.
C9_Witness ==
  \E p \in Procs :
    /\ pc[p] = "failed"
    /\ fallo[p].paso = "servicios"
    /\ fallo[p].tabla = "contratoServicio"
    /\ fallo[p].clave \in ContratoIds
    /\ err[p] # NoErr
    /\ exc[p] = WrapError(err[p])
    /\ \E i \in 1..Len(intentos[p]) : intentos[p][i][1] = "cliente"

\* C10 as stated: an empty list of any entity type does not fail the run at
\* the normalisation.
C10_Original ==
  \A p \in Procs :
    (pc[p] = "failed" /\ \E f \in {"clientes", "casos", "servicios"} : data[p][f] = <<>>)
      => fallo[p].paso # "normalizar"

=============================================================================
